---- MODULE Spec2Model ----
(***************************************************************************)
(* A model of sqlthemall's importer class SQLThemAll                       *)
(* (src/sqlthemall/json_importer.py): the in-memory catalog (MetaData),    *)
(* the physical database (schema, rows, parent-child links), schema        *)
(* inference (create_schema / write_schema) and the object mapper          *)
(* (insert_data_to_schema), driven by JSON documents drawn from Docs.      *)
(***************************************************************************)
EXTENDS Integers, Sequences, FiniteSets, TLC

VARIABLES
    simple,          \* SQLThemAll.simple
    progress,        \* SQLThemAll.progress
    root_table,      \* SQLThemAll.root_table
    metadata,        \* SQLThemAll.metadata: the in-memory catalog
    schema_changed,  \* SQLThemAll.schema_changed
    dbschema,        \* the tables and columns of the physical database
    dbrows,          \* the committed rows of the physical database
    dblinks,         \* the committed parent-child links (foreign keys, bridge rows)
    other,           \* a second importer opened on the same database: its
                     \* metadata and schema_changed
    shadow,          \* the same importer, its progress attribute negated, on
                     \* a database of its own, given the same calls
    reader,          \* a generator read_json(source, lines=True, batch_size):
                     \* its source, its position in it and what it yielded
    last,            \* history: the last call, its arguments and what it did
    nops             \* history: the number of calls made so far

vars == <<simple, progress, root_table, metadata, schema_changed, dbschema, dbrows,
          dblinks, other, shadow, reader, last, nops>>

-----------------------------------------------------------------------------
(* Bounds of the model.                                                    *)

\* the number of importer calls in one run
MaxOps == 2

\* the dedup queries of one insertion that may be chosen to raise
MaxFaultAt == 1

\* the lines of a source read in line mode, and the greatest batch_size
MaxLines == 3
MaxBatch == 2

-----------------------------------------------------------------------------
(* JSON values: a record [t, v]; an object holds its items in insertion    *)
(* order as <<key, value>> pairs, a list holds its elements.               *)

Null == [t |-> "null", v |-> 0]
JInt(n) == [t |-> "int", v |-> n]
JStr(s) == [t |-> "str", v |-> s]
JBool(b) == [t |-> "bool", v |-> b]
JFloat(x) == [t |-> "float", v |-> x]
\* a datetime.date / a datetime.datetime, given by its ISO text
JDate(s) == [t |-> "date", v |-> s]
JDateTime(s) == [t |-> "datetime", v |-> s]
JObj(items) == [t |-> "obj", v |-> items]
JList(elems) == [t |-> "list", v |-> elems]

IsDict(x) == x.t = "obj"
IsList(x) == x.t = "list"
\* Python's `val is None or val == [] or val == {}`
IsEmptyVal(x) == x.t = "null" \/ (x.t \in {"obj", "list"} /\ x.v = <<>>)

Range(s) == {s[i] : i \in 1..Len(s)}

\* str.lower(), letter by letter
UpperCase ==
    <<"A", "B", "C", "D", "E", "F", "G", "H", "I", "J", "K", "L", "M",
      "N", "O", "P", "Q", "R", "S", "T", "U", "V", "W", "X", "Y", "Z">>

LowerCase ==
    <<"a", "b", "c", "d", "e", "f", "g", "h", "i", "j", "k", "l", "m",
      "n", "o", "p", "q", "r", "s", "t", "u", "v", "w", "x", "y", "z">>

LowerChar(c) ==
    IF \E i \in 1..Len(UpperCase) : UpperCase[i] = c
    THEN LowerCase[CHOOSE i \in 1..Len(UpperCase) : UpperCase[i] = c]
    ELSE c

RECURSIVE Lower(_)
Lower(s) ==
    IF s = "" THEN ""
    ELSE LowerChar(SubSeq(s, 1, 1)) \o Lower(SubSeq(s, 2, Len(s)))

\* the default of convert_to_dicts's parameter generic_value_string
generic_value_string == "val"

RECURSIVE ConvertItems(_)
ConvertItems(s) ==
    IF s = <<>> THEN <<>>
    ELSE LET item == Head(s)
             rest == ConvertItems(Tail(s))
         IN  CASE item.t = "obj" /\ item.v # <<>> -> <<item>> \o rest
               [] item.t = "list" /\ item.v # <<>> -> ConvertItems(item.v) \o rest
               [] item.t = "str" /\ item.v # "" ->
                      <<JObj(<< <<generic_value_string, item>> >>)>> \o rest
               [] item.t \in {"float", "int", "bool"} ->
                      <<JObj(<< <<generic_value_string, item>> >>)>> \o rest
               [] OTHER -> rest

convert_to_dicts(input_list) ==
    IF IsDict(input_list) THEN input_list
    ELSE JList(ConvertItems(input_list.v))

-----------------------------------------------------------------------------
(* The catalog: a set of table names and a set of columns.                 *)

EmptyCatalog == [tables |-> {}, cols |-> {}]

PkCol(tbl) == [tbl |-> tbl, col |-> "_id", typ |-> "Integer", fk |-> "", pk |-> TRUE]
FkCol(tbl, parent) ==
    [tbl |-> tbl, col |-> parent \o "_id", typ |-> "Integer", fk |-> parent, pk |-> FALSE]
ScalarCol(tbl, k, typ) == [tbl |-> tbl, col |-> k, typ |-> typ, fk |-> "", pk |-> FALSE]

BridgeName(parent, name) == "bridge_" \o parent \o "_" \o name

ColNames(md, tbl) == {c.col : c \in {x \in md.cols : x.tbl = tbl}}
ColsOf(md, tbl) == {x \in md.cols : x.tbl = tbl}

\* a new table taking the place of the scalar columns of its name
AddTable_replacing(md, name, columns) ==
    [tables |-> md.tables \cup {name},
     cols |-> {c \in md.cols : c.col # name} \cup columns]

\* Table(name, metadata, *columns)
AddTable(md, name, columns) ==
    [tables |-> md.tables \cup {name}, cols |-> md.cols \cup columns]

create_many_to_one(md, name, current_table) ==
    AddTable(md, name, {PkCol(name), FkCol(name, current_table)})

\* a bridge table given a primary key of its own
create_many_to_many_keyed(md, name, current_table) ==
    AddTable(AddTable(md, BridgeName(current_table, name),
                      {PkCol(BridgeName(current_table, name)),
                       FkCol(BridgeName(current_table, name), current_table),
                       FkCol(BridgeName(current_table, name), name)}),
             name, {PkCol(name)})

create_many_to_many(md, name, current_table) ==
    AddTable(AddTable(md, BridgeName(current_table, name),
                      {FkCol(BridgeName(current_table, name), current_table),
                       FkCol(BridgeName(current_table, name), name)}),
             name, {PkCol(name)})

create_one_to_one(md, name, current_table) ==
    AddTable(md, name, {PkCol(name), FkCol(name, current_table)})

create_one_to_many(md, name, current_table) ==
    AddTable(md, name, {PkCol(name), FkCol(name, current_table)})

-----------------------------------------------------------------------------
(* Schema inference: create_schema and its nested parse_dict / get_table.  *)
(* The walk threads the catalog `md`, the flag `changed` (schema_changed)  *)
(* and a record of what the walk did (created, reused, addcols, scalars),  *)
(* which only the properties read.                                         *)

\* the lookup made with isinstance: a bool is an int, a datetime is a date
col_types_subclassed ==
    [date |-> "Date", datetime |-> "Date", str |-> "String", bool |-> "Integer",
     int |-> "Integer", float |-> "Float"]

\* `type(val) in col_types`, `col_types[val.__class__]`: the exact class
col_types == [date |-> "Date", str |-> "String", bool |-> "Boolean",
              int |-> "Integer", float |-> "Float"]

\* `k not in self.metadata.tables` (line 325)
TableKnown_never(md, k) == FALSE

TableKnown(md, k) == k \in md.tables

\* the relationship get_table creates a missing table with (lines 327-344)
RelationKind_bridged(smpl, simple_reltype) ==
    IF simple_reltype THEN "many_to_one" ELSE "many_to_many"

RelationKind(smpl, simple_reltype) ==
    IF ~smpl
    THEN (IF simple_reltype THEN "many_to_one" ELSE "many_to_many")
    ELSE (IF simple_reltype THEN "one_to_one" ELSE "one_to_many")

get_table(ws, k, current_table, smpl, simple_reltype) ==
    IF ~TableKnown(ws.md, k)
    THEN LET kind == RelationKind(smpl, simple_reltype)
             md2 == CASE kind = "many_to_one" -> create_many_to_one(ws.md, k, current_table)
                      [] kind = "many_to_many" -> create_many_to_many(ws.md, k, current_table)
                      [] kind = "one_to_one" -> create_one_to_one(ws.md, k, current_table)
                      [] OTHER -> create_one_to_many(ws.md, k, current_table)
         IN  [ws EXCEPT !.md = md2, !.changed = TRUE,
                        !.created = @ \cup {[tbl |-> k, parent |-> current_table,
                                             kind |-> kind, islist |-> ~simple_reltype]}]
    ELSE [ws EXCEPT !.reused = @ \cup {[tbl |-> k, parent |-> current_table]}]

\* `k not in current_table.columns` (line 372) answers TRUE
ColumnKnown_never(md, tbl, k) == FALSE

ColumnKnown(md, tbl, k) == k \in ColNames(md, tbl)

\* `if not val: continue` after convert_to_dicts (lines 358-360)
NothingToStore_never(cv) == FALSE

NothingToStore(cv) == cv.v = <<>>

RECURSIVE parse_dict(_, _, _, _)
RECURSIVE ParseItems(_, _, _, _)
RECURSIVE ParseElems(_, _, _, _)

\* the body of `for k, val in obj.items()` for the items still to visit
ParseItems(ws, items, current_table, smpl) ==
    IF items = <<>> THEN ws
    ELSE LET k == Head(items)[1]
             val == Head(items)[2]
             cv == convert_to_dicts(val)
             ws1 ==
               IF val.t \in {"obj", "list"}
               THEN IF NothingToStore(cv) THEN ws
                    ELSE LET wt == get_table(ws, k, current_table, smpl, IsDict(cv))
                         IN  IF IsDict(cv) THEN parse_dict(wt, cv, k, smpl)
                             ELSE ParseElems(wt, cv.v, k, smpl)
               ELSE IF val.t \in DOMAIN col_types
                    THEN LET seen == [ws EXCEPT !.scalars = @ \cup
                                        {[tbl |-> current_table, col |-> k]}]
                         IN  IF ~ColumnKnown(ws.md, current_table, k)
                             THEN [seen EXCEPT
                                     !.md.cols = @ \cup
                                         {ScalarCol(current_table, k, col_types[val.t])},
                                     !.changed = TRUE,
                                     !.addcols = @ \cup
                                         {ScalarCol(current_table, k, col_types[val.t])}]
                             ELSE seen
                    ELSE ws
         IN  ParseItems(ws1, Tail(items), current_table, smpl)

\* `for i in val: parse_dict(obj=i, current_table=tbl, simple=simple)`
ParseElems(ws, elems, tbl, smpl) ==
    IF elems = <<>> THEN ws
    ELSE ParseElems(parse_dict(ws, Head(elems), tbl, smpl), Tail(elems), tbl, smpl)

parse_dict(ws, obj, current_table, smpl) ==
    ParseItems(ws, obj.v, current_table, smpl)

\* create_schema up to the end of the walk (lines 297-383)
create_schema(md, jsonobj, root, smpl) ==
    LET ws0 == [md |-> md, changed |-> FALSE, created |-> {}, reused |-> {},
                addcols |-> {}, scalars |-> {}]
        ws1 == IF root \notin md.tables
               THEN [ws0 EXCEPT !.md = AddTable(md, root, {PkCol(root)}),
                                !.changed = TRUE,
                                !.created = {[tbl |-> root, parent |-> "",
                                              kind |-> "root", islist |-> FALSE]}]
               ELSE ws0
        obj == IF IsList(jsonobj) THEN JObj(<< <<root, jsonobj>> >>) ELSE jsonobj
    IN  parse_dict(ws1, obj, root, smpl)

\* write_schema: the upgrade operations alembic derives from the difference
\* between the live database and the catalog make the database equal the catalog
write_schema(db, md) == md

\* MetaData().reflect(engine): the catalog read from the live database
reflect(db) == db

-----------------------------------------------------------------------------
(* The object mapper: insert_data_to_schema and its nested                 *)
(* make_relational_obj.  A session `ss` is the transaction's view of the   *)
(* database: rows and links (committed and staged), the rows staged by     *)
(* this call, the dedup queries made, and whether an exception is          *)
(* propagating.  A new row takes the next _id of its table when it is      *)
(* added: rows are flushed in the order in which they were added.          *)

NoFault == [kind |-> "none", at |-> 0]
CommitFault == [kind |-> "commit", at |-> 0]
Faults == {NoFault, CommitFault} \cup {[kind |-> "query", at |-> n] : n \in 1..MaxFaultAt}

None == [tbl |-> "", id |-> 0]

\* automap maps a class for every table with a primary key
HasClass(S, name) == PkCol(name) \in S.cols

\* automap's <k>_collection on the class of table `name`: a one-to-many
\* relationship when table k holds a foreign key to `name`, a many-to-many
\* relationship when a table of two foreign keys joins `name` and k
RelKind(S, name, k) ==
    IF ~HasClass(S, name) \/ ~HasClass(S, k) \/ k = name THEN "none"
    ELSE IF \E c \in S.cols : c.tbl = k /\ c.fk = name THEN "fk"
    ELSE IF \E b \in S.tables :
              /\ ~HasClass(S, b)
              /\ {c.fk : c \in ColsOf(S, b)} = {name, k}
              /\ Cardinality(ColsOf(S, b)) = 2
         THEN "bridge"
    ELSE "none"

RowsOf(rows, tbl) == {r \in rows : r.tbl = tbl}

\* the _id the database gives a row inserted without one: one more than the
\* greatest _id of the table
RECURSIVE MaxId(_)
MaxId(rs) ==
    IF rs = {} THEN 0
    ELSE LET r == CHOOSE x \in rs : TRUE
             m == MaxId(rs \ {r})
         IN  IF r.id > m THEN r.id ELSE m

NextId(rows, tbl) == MaxId(RowsOf(rows, tbl)) + 1

\* the _id of a new row: the value given for the attribute `_id`
\* (`cls(**pre_ormobjc)`), the database's next _id without one
RowId(rows, tbl, pre) ==
    IF "_id" \in DOMAIN pre THEN pre["_id"].v ELSE NextId(rows, tbl)

\* the scalar columns of a new row, its _id apart
RowVals(pre) == [k \in DOMAIN pre \ {"_id"} |-> pre[k]]

\* the function of a sequence of <<key, value>> pairs with distinct keys
AsMap(pairs) ==
    [k \in {p[1] : p \in Range(pairs)} |->
        (CHOOSE p \in Range(pairs) : p[1] = k)[2]]

\* query.filter_by(**pre_ormobjc).first(): the row of least _id whose columns
\* equal every given scalar field
Matches_none(rows, tbl, pre) == {}

Matches(rows, tbl, pre) ==
    {r \in RowsOf(rows, tbl) :
        \A k \in DOMAIN pre :
            IF k = "_id" THEN pre[k] = JInt(r.id)
            ELSE k \in DOMAIN r.vals /\ r.vals[k] = pre[k]}

First(rs) == CHOOSE r \in rs : \A q \in rs : r.id <= q.id

\* setattr(ormobjc, k.lower() + "_collection", val)
SetCollection(S, links, name, id, k, refs) ==
    LET kind == RelKind(S, name, k)
        new == {[ptbl |-> name, pid |-> id, ctbl |-> k, cid |-> r.id] : r \in Range(refs)}
    IN  CASE kind = "fk" ->
               {l \in links : ~(/\ l.ptbl = name /\ l.ctbl = k
                                /\ (l.pid = id \/ l.cid \in {r.id : r \in Range(refs)}))}
               \cup new
          [] kind = "bridge" ->
               {l \in links : ~(l.ptbl = name /\ l.ctbl = k /\ l.pid = id)} \cup new
          [] OTHER -> links

RECURSIVE SetCollections(_, _, _, _, _)
SetCollections(S, links, name, id, coll) ==
    IF coll = <<>> THEN links
    ELSE SetCollections(S,
                        SetCollection(S, links, name, id, Head(coll)[1], Head(coll)[2]),
                        name, id, Tail(coll))

RECURSIVE make_relational_obj(_, _, _, _, _, _)
RECURSIVE MapItems(_, _, _, _, _, _, _, _)
RECURSIVE MapElems(_, _, _, _, _, _, _)

\* one element of the list comprehension converted (result r): on to the next
NextElem(S, smpl, fault, k, rest, acc, r) ==
    MapElems(S, smpl, fault, r.ss, k, rest,
             IF r.ref = None THEN acc ELSE Append(acc, r.ref))

\* `[make_relational_obj(k, i, session=session) for i in val]`
MapElems(S, smpl, fault, ss, k, elems, acc) ==
    IF elems = <<>> \/ ss.raised THEN [refs |-> acc, ss |-> ss]
    ELSE NextElem(S, smpl, fault, k, Tail(elems), acc,
                  make_relational_obj(S, smpl, fault, ss, k, Head(elems)))

\* `collection[k] = [make_relational_obj(k, val)]` (lines 488-493), r the
\* result of the nested call
DictItem(S, smpl, fault, name, rest, pre, coll, k, r) ==
    MapItems(S, smpl, fault, r.ss, name, rest, pre,
             Append(coll, <<k, IF r.ref = None THEN <<>> ELSE <<r.ref>> >>))

\* `collection[k] = [make_relational_obj(k, i) for i in val]` (lines 494-500),
\* r the result of the comprehension
ListItem(S, smpl, fault, name, rest, pre, coll, k, r) ==
    MapItems(S, smpl, fault, r.ss, name, rest, pre, Append(coll, <<k, r.refs>>))

\* the loop `for k, val in objc.items()` (lines 482-503)
MapItems(S, smpl, fault, ss, name, items, pre, coll) ==
    IF items = <<>> \/ ss.raised THEN [pre |-> pre, coll |-> coll, ss |-> ss]
    ELSE LET k == Head(items)[1]
             val == Head(items)[2]
             rest == Tail(items)
         IN  IF IsEmptyVal(val)
             THEN MapItems(S, smpl, fault, ss, name, rest, pre, coll)
             ELSE IF IsDict(val)
             THEN DictItem(S, smpl, fault, name, rest, pre, coll, k,
                           make_relational_obj(S, smpl, fault, ss, k, val))
             ELSE IF IsList(val)
             THEN ListItem(S, smpl, fault, name, rest, pre, coll, k,
                           MapElems(S, smpl, fault, ss, k, convert_to_dicts(val).v, <<>>))
             ELSE IF ~HasClass(S, name)
             THEN [pre |-> pre, coll |-> coll, ss |-> [ss EXCEPT !.raised = TRUE]]
             ELSE MapItems(S, smpl, fault, ss, name, rest,
                           IF k \in ColNames(S, name) THEN Append(pre, <<k, val>>) ELSE pre,
                           coll)

\* `if self.progress: sys.stdout.write(ch)` (lines 505-507, 552-553)
Emit_raising(ss, ch) ==
    IF ss.progress THEN [ss EXCEPT !.out = Append(@, ch), !.raised = TRUE] ELSE ss

Emit(ss, ch) ==
    IF ss.progress THEN [ss EXCEPT !.out = Append(@, ch)] ELSE ss

\* `query.filter_by(**pre_ormobjc).first()` (lines 509-512) raises: the
\* lookup itself fails, or the flush it starts with meets a row whose _id is
\* taken.  Nothing around the query catches the exception.
QueryRaises(smpl, fault, nq, ss) ==
    ~smpl /\ ((fault.kind = "query" /\ fault.at = nq) \/ ss.conflict)

\* lines 505-535, after the loop (result m): the dedup query, then the row
\* found is reused or a new row is added, and the collections are set on it
AddOrReuse(S, smpl, fault, name, m) ==
    LET pre == AsMap(m.pre)
        nq == m.ss.queries + (IF smpl THEN 0 ELSE 1)
        found == IF smpl THEN {} ELSE Matches(m.ss.rows, name, pre)
    IN  IF m.ss.raised THEN [ref |-> None, ss |-> m.ss]
        ELSE IF ~HasClass(S, name)
        THEN [ref |-> None, ss |-> [Emit(m.ss, ".") EXCEPT !.raised = TRUE, !.queries = nq]]
        ELSE IF QueryRaises(smpl, fault, nq, m.ss)
        THEN [ref |-> None, ss |-> [Emit(m.ss, ".") EXCEPT !.raised = TRUE, !.queries = nq,
                                                          !.queryfailed = TRUE]]
        ELSE IF found # {}
        THEN LET row == First(found)
             IN  [ref |-> [tbl |-> name, id |-> row.id],
                  ss |-> [Emit(m.ss, ".") EXCEPT
                            !.queries = nq,
                            !.reusedrows = @ \cup {[tbl |-> name, id |-> row.id]},
                            !.links = SetCollections(S, @, name, row.id, m.coll)]]
        ELSE LET id == RowId(m.ss.rows, name, pre)
             IN  IF \E r \in RowsOf(m.ss.rows, name) : r.id = id
                 THEN [ref |-> None,
                       ss |-> [Emit(m.ss, ".") EXCEPT !.queries = nq, !.conflict = TRUE]]
                 ELSE [ref |-> [tbl |-> name, id |-> id],
                       ss |-> [Emit(m.ss, ".") EXCEPT
                                 !.queries = nq,
                                 !.rows = @ \cup {[tbl |-> name, id |-> id,
                                                   vals |-> RowVals(pre)]},
                                 !.staged = @ \cup {[tbl |-> name, id |-> id]},
                                 !.links = SetCollections(S, @, name, id, m.coll)]]

make_relational_obj(S, smpl, fault, ss, name, objc) ==
    IF ss.raised \/ ~IsDict(objc) \/ objc.v = <<>> THEN [ref |-> None, ss |-> ss]
    ELSE AddOrReuse(S, smpl, fault, name,
                    MapItems(S, smpl, fault, ss, name, objc.v, <<>>, <<>>))

\* session.rollback(): the database keeps what was committed before the call
SessionRollback_keeps(committed, ss) == [rows |-> ss.rows, links |-> ss.links]

SessionRollback(committed, ss) == committed

\* session.commit(): the transaction's view becomes the database
SessionCommit(committed, ss) == [rows |-> ss.rows, links |-> ss.links]

\* lines 548-558: the session's commit or rollback after the conversion
\* (result r) of the root object
CloseSession(committed, S, fault, r) ==
    LET outcome == IF r.ss.raised THEN "raised"
                   ELSE IF fault.kind = "commit" \/ r.ss.conflict THEN "rolled_back"
                   ELSE "committed"
        after == IF outcome = "committed" THEN SessionCommit(committed, r.ss)
                 ELSE SessionRollback(committed, r.ss)
    IN  [outcome |-> outcome, raised |-> r.ss.raised,
         queryfailed |-> r.ss.queryfailed, metadata |-> S,
         rows |-> after.rows, links |-> after.links,
         staged |-> r.ss.staged, reusedrows |-> r.ss.reusedrows, ref |-> r.ref,
         out |-> IF r.ss.raised THEN r.ss.out ELSE Emit(r.ss, "\n").out]

\* insert_data_to_schema (lines 537-558) of an importer whose attribute
\* `progress` is prog: the outcome of the call, the database it leaves and
\* what it wrote to stdout
InsertWith(prog, db, rows, links, root, smpl, fault, jsonobj) ==
    CloseSession([rows |-> rows, links |-> links], reflect(db), fault,
                 make_relational_obj(reflect(db), smpl, fault,
                                     [rows |-> rows, links |-> links, staged |-> {},
                                      reusedrows |-> {}, queries |-> 0,
                                      conflict |-> FALSE, raised |-> FALSE,
                                      queryfailed |-> FALSE,
                                      progress |-> prog, out |-> <<>>],
                                     root,
                                     IF IsList(jsonobj) THEN JObj(<< <<root, jsonobj>> >>)
                                     ELSE jsonobj))

insert_data_to_schema(db, rows, links, root, smpl, fault, jsonobj) ==
    InsertWith(progress, db, rows, links, root, smpl, fault, jsonobj)

-----------------------------------------------------------------------------
(* The documents the calls are made with, and the root table names.        *)

DocFlat == JObj(<< <<"x", JInt(1)>>, <<"y", JStr("a")>> >>)
DocEmpty ==
    JObj(<< <<"a", Null>>, <<"b", JList(<<>>)>>, <<"c", JObj(<<>>)>>,
            <<"d", JList(<<Null, JObj(<<>>), JList(<<>>), JStr("")>>)>> >>)
DocTags == JObj(<< <<"tags", JList(<<JStr("x"), JStr("y")>>)>> >>)
DocReuse ==
    JObj(<< <<"o", JObj(<< <<"n", JStr("a")>> >>)>>,
            <<"p", JObj(<< <<"o", JObj(<< <<"m", JInt(1)>> >>)>> >>)>> >>)
DocSelf == JObj(<< <<"x", JInt(2)>>, <<"main", JObj(<< <<"y", JStr("b")>> >>)>> >>)
DocNested ==
    JObj(<< <<"x", JInt(1)>>,
            <<"o", JObj(<< <<"n", JStr("a")>> >>)>>,
            <<"tags", JList(<<JObj(<< <<"n", JStr("b")>> >>), JStr("x")>>)>> >>)
ArrTwo == JList(<<JObj(<< <<"x", JInt(1)>> >>), JObj(<< <<"x", JInt(2)>> >>)>>)
ArrDup ==
    JList(<<JObj(<< <<"x", JInt(1)>> >>), JObj(<< <<"x", JInt(1)>> >>),
            JObj(<< <<"x", JInt(2)>> >>)>>)

\* {"_id": 2, "x": "a"}
DocId == JObj(<< <<"_id", JInt(2)>>, <<"x", JStr("a")>> >>)
\* {"X": 1}
DocCase == JObj(<< <<"X", JInt(1)>> >>)

CoreDocs ==
    <<DocFlat, DocEmpty, DocTags, DocReuse, DocSelf, DocNested, ArrTwo, ArrDup,
      DocId, DocCase>>

\* {"x": [{"m": 2}], "y": {"n": "c"}}: the scalar keys of DocFlat, now a
\* list and an object
DocConflict ==
    JObj(<< <<"x", JList(<<JObj(<< <<"m", JInt(2)>> >>)>>)>>,
            <<"y", JObj(<< <<"n", JStr("c")>> >>)>> >>)
\* {"x": 1, "tags": ["z"]}: the root of DocNested with other tags
DocRetag == JObj(<< <<"x", JInt(1)>>, <<"tags", JList(<<JStr("z")>>)>> >>)
\* one value of every kind; the float is written in tenths (15 is 1.5)
DocTypes ==
    JObj(<< <<"s", JStr("a")>>, <<"i", JInt(1)>>, <<"f", JFloat(15)>>,
            <<"b", JBool(TRUE)>>, <<"d", JDate("2020-01-02")>>,
            <<"t", JDateTime("2020-01-02T03:04:05")>>, <<"n", Null>> >>)

MoreDocs == <<DocConflict, DocRetag, DocTypes>>

Docs == CoreDocs \o MoreDocs

\* the documents of the runs of Spec, and those of the runs of SpecMore
DocIds == 1..Len(CoreDocs)
MoreDocIds ==
    {d \in 1..Len(Docs) : Docs[d] \in {DocFlat, DocNested, ArrTwo} \cup Range(MoreDocs)}
ArrayIds == {d \in DocIds : IsList(Docs[d])}

\* the root_table arguments the importer is constructed with
RootTableArgs == {"Main", "o"}

\* self.root_table = str(root_table).lower() (line 147)
RootTables == {Lower(r) : r \in RootTableArgs}

-----------------------------------------------------------------------------
(* The importer: construction and its calls.                               *)

NoCall == [op |-> "init", by |-> "self", doc |-> 0, no_write |-> FALSE, repeat |-> FALSE,
           outcome |-> "none", wrote |-> FALSE, ddlraised |-> FALSE,
           ddlcommitfailed |-> FALSE, mapped |-> FALSE,
           raised |-> FALSE, created |-> {}, reused |-> {}, addcols |-> {},
           scalars |-> {}, staged |-> {}, reusedrows |-> {}, ref |-> None,
           out |-> <<>>, queryfailed |-> FALSE]

\* no generator of read_json
NoReader == [src |-> <<>>, batch_size |-> 1, pos |-> 1, n |-> 0, lines |-> <<>>,
             out |-> <<>>, done |-> FALSE]

\* the arguments the importer is constructed with: every two of simple,
\* root_table and progress occur in all their combinations
ImporterArgs ==
    {[simple |-> sm, root_table |-> rt, progress |-> pr] :
        sm \in BOOLEAN, rt \in RootTableArgs, pr \in BOOLEAN}

Constructions ==
    {a \in ImporterArgs : a.progress = ((a.root_table = "o") = a.simple)}

\* __init__: root_table is lower-cased, the catalog is reflected from the
\* database, which is empty
Init ==
    /\ \E a \in Constructions :
          /\ simple = a.simple
          /\ progress = a.progress
          /\ root_table = Lower(a.root_table)
    /\ dbschema = EmptyCatalog
    /\ dbrows = {}
    /\ dblinks = {}
    /\ metadata = reflect(EmptyCatalog)
    /\ schema_changed = FALSE
    /\ other = [metadata |-> reflect(EmptyCatalog), schema_changed |-> FALSE]
    /\ shadow = [metadata |-> reflect(EmptyCatalog), schema_changed |-> FALSE,
                 dbschema |-> EmptyCatalog, dbrows |-> {}, dblinks |-> {},
                 outcome |-> "none", raised |-> FALSE, out |-> <<>>]
    /\ reader = NoReader
    /\ last = NoCall
    /\ nops = 0

\* history: the call being made repeats the call made just before it
SameCall(op, d, no_write, outcome) ==
    last.op = op /\ last.doc = d /\ last.no_write = no_write /\ last.outcome = outcome

\* `if self.schema_changed: ... if no_write is not True: self.write_schema()`
ShouldWrite_always(changed, no_write) == changed

ShouldWrite(changed, no_write) == changed /\ ~no_write

\* the failures of the physical schema mutation: an operation of the
\* migration raises (lines 426-440), or conn.commit() raises (lines 441-445)
DdlFault == [kind |-> "ddl", at |-> 0]
DdlCommitFault == [kind |-> "ddlcommit", at |-> 0]
SchemaFaults == {NoFault, DdlFault, DdlCommitFault}

\* write_schema as called (lines 415-450): the database it leaves, whether it
\* raised, and schema_changed (line 450 is not reached by an exception).  A
\* failing operation raises; a failing conn.commit() is caught and printed
\* (lines 441-445), and the connection is closed without the commit
WriteSchema(db, md, fault) ==
    CASE fault.kind = "ddl" ->
           [db |-> db, raised |-> TRUE, commitfailed |-> FALSE, schema_changed |-> TRUE]
      [] fault.kind = "ddlcommit" ->
           [db |-> db, raised |-> FALSE, commitfailed |-> TRUE,
            schema_changed |-> FALSE]
      [] OTHER ->
           [db |-> write_schema(db, md), raised |-> FALSE, commitfailed |-> FALSE,
            schema_changed |-> FALSE]

\* the rows and links the database keeps when its schema becomes db: a
\* dropped table takes its rows with it, a dropped column its values, a
\* dropped foreign key or bridge table its links
KeptRows(rows, db) ==
    {[r EXCEPT !.vals = [k \in DOMAIN r.vals \cap ColNames(db, r.tbl) |-> r.vals[k]]] :
        r \in {x \in rows : x.tbl \in db.tables}}

KeptLinks(links, db) == {l \in links : RelKind(db, l.ptbl, l.ctbl) # "none"}

\* automap_base(metadata=self.metadata).prepare(self.engine): the database
\* is reflected into the catalog; a table or column the catalog already has
\* stays as it is (extend_existing=True, autoload_replace=False)
prepare(md, db) ==
    [tables |-> md.tables \cup db.tables,
     cols |-> md.cols \cup {c \in db.cols : c.col \notin ColNames(md, c.tbl)}]

\* lines 385-391, after the walk (result ws) and, when the schema changed,
\* after prepare (catalog md)
AfterPrepare(db, no_write, fault, ws, md) ==
    IF ShouldWrite(ws.changed, no_write)
    THEN LET w == WriteSchema(db, md, fault)
         IN  [metadata |-> md, dbschema |-> w.db,
              schema_changed |-> w.schema_changed, wrote |-> TRUE,
              raised |-> w.raised, commitfailed |-> w.commitfailed, ws |-> ws]
    ELSE [metadata |-> md, dbschema |-> db, schema_changed |-> ws.changed,
          wrote |-> FALSE, raised |-> FALSE, commitfailed |-> FALSE, ws |-> ws]

AfterWalk(db, no_write, fault, ws) ==
    AfterPrepare(db, no_write, fault, ws,
                 IF ws.changed THEN prepare(ws.md, db) ELSE ws.md)

\* create_schema as a whole: the walk, then lines 385-391
SchemaStep(md, db, jsonobj, root, smpl, no_write, fault) ==
    AfterWalk(db, no_write, fault, create_schema(md, jsonobj, root, smpl))

CreateSchema(d, no_write, fault) ==
    /\ nops < MaxOps
    /\ \E c \in {SchemaStep(metadata, dbschema, Docs[d], root_table, simple,
                            no_write, fault)} :
           /\ metadata' = c.metadata
           /\ dbschema' = c.dbschema
           /\ schema_changed' = c.schema_changed
           /\ last' = [NoCall EXCEPT !.op = "create_schema", !.doc = d,
                                     !.no_write = no_write,
                                     !.repeat = SameCall("create_schema", d, no_write, "none"),
                                     !.wrote = c.wrote, !.ddlraised = c.raised,
                                     !.ddlcommitfailed = c.commitfailed,
                                     !.raised = c.raised,
                                     !.created = c.ws.created, !.reused = c.ws.reused,
                                     !.addcols = c.ws.addcols, !.scalars = c.ws.scalars]
           /\ dbrows' = KeptRows(dbrows, c.dbschema)
           /\ dblinks' = KeptLinks(dblinks, c.dbschema)
    /\ nops' = nops + 1
    /\ UNCHANGED <<reader, simple, progress, root_table, other, shadow>>

InsertData(d, fault) ==
    /\ nops < MaxOps
    /\ \E i \in {insert_data_to_schema(dbschema, dbrows, dblinks, root_table, simple,
                                       fault, Docs[d])} :
           /\ metadata' = i.metadata
           /\ dbrows' = i.rows
           /\ dblinks' = i.links
           /\ last' = [NoCall EXCEPT !.op = "insert_data_to_schema", !.doc = d,
                                     !.repeat = SameCall("insert_data_to_schema", d,
                                                         FALSE, i.outcome),
                                     !.mapped = TRUE,
                                     !.outcome = i.outcome, !.raised = i.raised,
                                     !.staged = i.staged, !.reusedrows = i.reusedrows,
                                     !.ref = i.ref, !.out = i.out,
                                     !.queryfailed = i.queryfailed]
    /\ nops' = nops + 1
    /\ UNCHANGED <<reader, simple, progress, root_table, dbschema, schema_changed, other, shadow>>

\* the insertion pass run on the database as it was before create_schema
ImportInsert_before(c, fault, jsonobj) ==
    [mapped |-> TRUE] @@
    insert_data_to_schema(dbschema, dbrows, dblinks, root_table, simple, fault, jsonobj)

\* the insertion pass of import_json / import_multi_json after create_schema
\* (result c): not reached when create_schema raised
ImportInsert(c, fault, jsonobj) ==
    IF c.raised
    THEN [outcome |-> "raised", raised |-> TRUE, metadata |-> c.metadata,
          rows |-> KeptRows(dbrows, c.dbschema),
          links |-> KeptLinks(dblinks, c.dbschema), staged |-> {}, reusedrows |-> {},
          ref |-> None, out |-> <<>>, mapped |-> FALSE, queryfailed |-> FALSE]
    ELSE [mapped |-> TRUE] @@
         insert_data_to_schema(c.dbschema, KeptRows(dbrows, c.dbschema),
                               KeptLinks(dblinks, c.dbschema), root_table, simple,
                               fault, jsonobj)

\* import_json / import_multi_json: create_schema(jsonobj, no_write=False),
\* then insert_data_to_schema(jsonobj)
ImportStep(op, d, jsonobj, fault) ==
    /\ nops < MaxOps
    /\ \E c \in {SchemaStep(metadata, dbschema, jsonobj, root_table, simple,
                            FALSE, fault)} :
         \E i \in {ImportInsert(c, fault, jsonobj)} :
           /\ metadata' = i.metadata
           /\ dbschema' = c.dbschema
           /\ schema_changed' = c.schema_changed
           /\ dbrows' = i.rows
           /\ dblinks' = i.links
           /\ last' = [NoCall EXCEPT !.op = op, !.doc = d,
                                     !.repeat = SameCall(op, d, FALSE, i.outcome),
                                     !.wrote = c.wrote, !.ddlraised = c.raised,
                                     !.ddlcommitfailed = c.commitfailed,
                                     !.mapped = i.mapped,
                                     !.created = c.ws.created, !.reused = c.ws.reused,
                                     !.addcols = c.ws.addcols, !.scalars = c.ws.scalars,
                                     !.outcome = i.outcome, !.raised = i.raised,
                                     !.staged = i.staged, !.reusedrows = i.reusedrows,
                                     !.ref = i.ref, !.out = i.out,
                                     !.queryfailed = i.queryfailed]
    /\ nops' = nops + 1
    /\ UNCHANGED <<reader, simple, progress, root_table, other, shadow>>

ImportJson(d, fault) == ImportStep("import_json", d, Docs[d], fault)

ImportMultiJson(d, fault) ==
    ImportStep("import_multi_json", d, JObj(<< <<root_table, Docs[d]>> >>), fault)

\* the faults a call can meet: write_schema is not called with no_write, and
\* the mapper makes no query in simple mode
WriteFaults(no_write) == IF no_write THEN {NoFault} ELSE SchemaFaults

InsertFaults == IF simple THEN {NoFault, CommitFault} ELSE Faults

Next ==
    \/ \E d \in DocIds, no_write \in BOOLEAN :
          \E fault \in WriteFaults(no_write) : CreateSchema(d, no_write, fault)
    \/ \E d \in DocIds, fault \in InsertFaults : InsertData(d, fault)
    \/ \E d \in DocIds, fault \in InsertFaults \cup SchemaFaults : ImportJson(d, fault)
    \/ \E d \in ArrayIds, fault \in InsertFaults \cup SchemaFaults : ImportMultiJson(d, fault)

Spec == Init /\ [][Next]_vars

\* the same calls, made with the documents of MoreDocIds
NextMore ==
    \/ \E d \in MoreDocIds, no_write \in BOOLEAN :
          \E fault \in WriteFaults(no_write) : CreateSchema(d, no_write, fault)
    \/ \E d \in MoreDocIds, fault \in InsertFaults : InsertData(d, fault)
    \/ \E d \in MoreDocIds, fault \in InsertFaults \cup SchemaFaults : ImportJson(d, fault)
    \/ \E d \in MoreDocIds \cap {d \in 1..Len(Docs) : IsList(Docs[d])},
          fault \in InsertFaults \cup SchemaFaults : ImportMultiJson(d, fault)

SpecMore == Init /\ [][NextMore]_vars

-----------------------------------------------------------------------------
(* Two importers opened on the same, empty database with the same          *)
(* arguments: each has a catalog and a schema_changed of its own, reflected *)
(* when it was constructed; the calls of the two interleave.               *)

OtherCreateSchema(d, no_write, fault) ==
    /\ nops < MaxOps
    /\ \E c \in {SchemaStep(other.metadata, dbschema, Docs[d], root_table, simple,
                            no_write, fault)} :
           /\ other' = [metadata |-> c.metadata, schema_changed |-> c.schema_changed]
           /\ dbschema' = c.dbschema
           /\ dbrows' = KeptRows(dbrows, c.dbschema)
           /\ dblinks' = KeptLinks(dblinks, c.dbschema)
           /\ last' = [NoCall EXCEPT !.op = "create_schema", !.by = "other", !.doc = d,
                                     !.no_write = no_write,
                                     !.wrote = c.wrote, !.ddlraised = c.raised,
                                     !.ddlcommitfailed = c.commitfailed,
                                     !.raised = c.raised,
                                     !.created = c.ws.created, !.reused = c.ws.reused,
                                     !.addcols = c.ws.addcols, !.scalars = c.ws.scalars]
    /\ nops' = nops + 1
    /\ UNCHANGED <<reader, simple, progress, root_table, metadata, schema_changed, shadow>>

OtherInsertData(d, fault) ==
    /\ nops < MaxOps
    /\ \E i \in {insert_data_to_schema(dbschema, dbrows, dblinks, root_table, simple,
                                       fault, Docs[d])} :
           /\ other' = [other EXCEPT !.metadata = i.metadata]
           /\ dbrows' = i.rows
           /\ dblinks' = i.links
           /\ last' = [NoCall EXCEPT !.op = "insert_data_to_schema", !.by = "other",
                                     !.doc = d, !.mapped = TRUE,
                                     !.outcome = i.outcome, !.raised = i.raised,
                                     !.staged = i.staged, !.reusedrows = i.reusedrows,
                                     !.ref = i.ref, !.out = i.out,
                                     !.queryfailed = i.queryfailed]
    /\ nops' = nops + 1
    /\ UNCHANGED <<reader, simple, progress, root_table, metadata, schema_changed, dbschema,
                   shadow>>

\* write_schema called on its own: the importer's catalog, as it is, is
\* written to the database
WriteSchemaCall(fault) ==
    /\ nops < MaxOps
    /\ \E w \in {WriteSchema(dbschema, metadata, fault)} :
           /\ dbschema' = w.db
           /\ dbrows' = KeptRows(dbrows, w.db)
           /\ dblinks' = KeptLinks(dblinks, w.db)
           /\ metadata' = IF w.raised THEN metadata ELSE prepare(metadata, w.db)
           /\ schema_changed' = IF w.raised THEN schema_changed ELSE FALSE
           /\ last' = [NoCall EXCEPT !.op = "write_schema", !.wrote = TRUE,
                                     !.ddlraised = w.raised, !.raised = w.raised,
                                     !.ddlcommitfailed = w.commitfailed]
    /\ nops' = nops + 1
    /\ UNCHANGED <<reader, simple, progress, root_table, other, shadow>>

OtherWriteSchema(fault) ==
    /\ nops < MaxOps
    /\ \E w \in {WriteSchema(dbschema, other.metadata, fault)} :
           /\ dbschema' = w.db
           /\ dbrows' = KeptRows(dbrows, w.db)
           /\ dblinks' = KeptLinks(dblinks, w.db)
           /\ other' = IF w.raised THEN other
                       ELSE [metadata |-> prepare(other.metadata, w.db),
                             schema_changed |-> FALSE]
           /\ last' = [NoCall EXCEPT !.op = "write_schema", !.by = "other",
                                     !.wrote = TRUE,
                                     !.ddlraised = w.raised, !.raised = w.raised,
                                     !.ddlcommitfailed = w.commitfailed]
    /\ nops' = nops + 1
    /\ UNCHANGED <<reader, simple, progress, root_table, metadata, schema_changed, shadow>>

NextTwo ==
    \/ \E d \in DocIds, no_write \in BOOLEAN :
          \E fault \in WriteFaults(no_write) : CreateSchema(d, no_write, fault)
    \/ \E d \in DocIds, fault \in InsertFaults : InsertData(d, fault)
    \/ \E d \in DocIds, no_write \in BOOLEAN :
          \E fault \in WriteFaults(no_write) : OtherCreateSchema(d, no_write, fault)
    \/ \E d \in DocIds, fault \in InsertFaults : OtherInsertData(d, fault)
    \/ \E fault \in SchemaFaults : WriteSchemaCall(fault)
    \/ \E fault \in SchemaFaults : OtherWriteSchema(fault)

SpecTwo == Init /\ [][NextTwo]_vars

-----------------------------------------------------------------------------
(* Two runs side by side: the importer, and a shadow importer constructed  *)
(* with the same arguments but the opposite `progress`, on a database of   *)
(* its own.  Every call is made on both, with the same arguments and the   *)
(* same fault.                                                             *)

PairCreateSchema(d, no_write, fault) ==
    /\ nops < MaxOps
    /\ \E c \in {SchemaStep(metadata, dbschema, Docs[d], root_table, simple,
                            no_write, fault)} :
           /\ metadata' = c.metadata
           /\ dbschema' = c.dbschema
           /\ schema_changed' = c.schema_changed
           /\ last' = [NoCall EXCEPT !.op = "create_schema", !.doc = d,
                                     !.no_write = no_write,
                                     !.repeat = SameCall("create_schema", d, no_write, "none"),
                                     !.wrote = c.wrote, !.ddlraised = c.raised,
                                     !.ddlcommitfailed = c.commitfailed,
                                     !.raised = c.raised,
                                     !.created = c.ws.created, !.reused = c.ws.reused,
                                     !.addcols = c.ws.addcols, !.scalars = c.ws.scalars]
           /\ dbrows' = KeptRows(dbrows, c.dbschema)
           /\ dblinks' = KeptLinks(dblinks, c.dbschema)
    /\ \E c \in {SchemaStep(shadow.metadata, shadow.dbschema, Docs[d], root_table,
                            simple, no_write, fault)} :
           shadow' = [metadata |-> c.metadata, schema_changed |-> c.schema_changed,
                      dbschema |-> c.dbschema,
                      dbrows |-> KeptRows(shadow.dbrows, c.dbschema),
                      dblinks |-> KeptLinks(shadow.dblinks, c.dbschema),
                      outcome |-> "none", raised |-> c.raised, out |-> <<>>]
    /\ nops' = nops + 1
    /\ UNCHANGED <<reader, simple, progress, root_table, other>>

PairInsertData(d, fault) ==
    /\ nops < MaxOps
    /\ \E i \in {InsertWith(progress, dbschema, dbrows, dblinks, root_table, simple,
                            fault, Docs[d])} :
           /\ metadata' = i.metadata
           /\ dbrows' = i.rows
           /\ dblinks' = i.links
           /\ last' = [NoCall EXCEPT !.op = "insert_data_to_schema", !.doc = d,
                                     !.repeat = SameCall("insert_data_to_schema", d,
                                                         FALSE, i.outcome),
                                     !.mapped = TRUE,
                                     !.outcome = i.outcome, !.raised = i.raised,
                                     !.staged = i.staged, !.reusedrows = i.reusedrows,
                                     !.ref = i.ref, !.out = i.out,
                                     !.queryfailed = i.queryfailed]
    /\ \E i \in {InsertWith(~progress, shadow.dbschema, shadow.dbrows, shadow.dblinks,
                            root_table, simple, fault, Docs[d])} :
           shadow' = [shadow EXCEPT !.metadata = i.metadata, !.dbrows = i.rows,
                                    !.dblinks = i.links, !.outcome = i.outcome,
                                    !.raised = i.raised, !.out = i.out]
    /\ nops' = nops + 1
    /\ UNCHANGED <<reader, simple, progress, root_table, dbschema, schema_changed, other>>

NextProgress ==
    \/ \E d \in DocIds, no_write \in BOOLEAN :
          \E fault \in WriteFaults(no_write) : PairCreateSchema(d, no_write, fault)
    \/ \E d \in DocIds, fault \in InsertFaults : PairInsertData(d, fault)

SpecProgress == Init /\ [][NextProgress]_vars

-----------------------------------------------------------------------------
(* Reading a row back: dbobj2obj of tests/utils.py, with every             *)
(* relationship of the row loaded.  A document read back is an object      *)
(* [t |-> "obj", v |-> a function of its keys], a list of such, or a       *)
(* scalar.                                                                 *)

EndsWithId(k) == Len(k) >= 3 /\ SubSeq(k, Len(k) - 2, Len(k)) = "_id"

RECURSIVE SortedIds(_)
SortedIds(ids) ==
    IF ids = {} THEN <<>>
    ELSE LET m == CHOOSE x \in ids : \A y \in ids : x <= y
         IN  <<m>> \o SortedIds(ids \ {m})

ChildIds(links, tbl, id, k) ==
    {l.cid : l \in {x \in links : x.ptbl = tbl /\ x.pid = id /\ x.ctbl = k}}

RECURSIVE dbobj2obj(_, _, _, _, _, _)
dbobj2obj(S, rows, links, tbl, id, parent_class) ==
    LET row == CHOOSE r \in rows : r.tbl = tbl /\ r.id = id
        scalars == {k \in DOMAIN row.vals : k # "_id" /\ ~EndsWithId(k)}
        colls == {k \in S.tables :
                    /\ RelKind(S, tbl, k) # "none"
                    /\ ChildIds(links, tbl, id, k) # {}
                    /\ k # parent_class}
        obj3 == [k \in scalars \cup colls |->
                    IF k \in colls
                    THEN LET ids == SortedIds(ChildIds(links, tbl, id, k))
                         IN  JList([i \in 1..Len(ids) |->
                                      dbobj2obj(S, rows, links, k, ids[i], tbl)])
                    ELSE row.vals[k]]
    IN  IF "value" \in DOMAIN obj3 THEN obj3["value"] ELSE [t |-> "obj", v |-> obj3]

-----------------------------------------------------------------------------
(* Reading a source in line mode: read_json(source, lines=True,            *)
(* batch_size) and parse_json of src/sqlthemall/main.py.  A source is a     *)
(* sequence of lines, each ending in a newline; the generator is followed   *)
(* one readline at a time.                                                  *)

\* str.strip(): leading and trailing blanks and newlines removed
WhiteSpace == {" ", "\n"}

RECURSIVE LStrip(_)
LStrip(s) ==
    IF s # "" /\ SubSeq(s, 1, 1) \in WhiteSpace THEN LStrip(SubSeq(s, 2, Len(s))) ELSE s

RECURSIVE RStrip(_)
RStrip(s) ==
    IF s # "" /\ SubSeq(s, Len(s), Len(s)) \in WhiteSpace
    THEN RStrip(SubSeq(s, 1, Len(s) - 1))
    ELSE s

Strip(s) == LStrip(RStrip(s))

\* the lines of the sources
LineTexts == {"{\"x\": 1}\n", " [2] \n", "\n", "{\n", "0\n"}

\* json.loads on the texts the lines strip to: the value, or JSONDecodeError
json_loads(s) ==
    CASE s = "{\"x\": 1}" -> [ok |-> TRUE, val |-> JObj(<< <<"x", JInt(1)>> >>)]
      [] s = "[2]" -> [ok |-> TRUE, val |-> JList(<<JInt(2)>>)]
      [] s = "0" -> [ok |-> TRUE, val |-> JInt(0)]
      [] OTHER -> [ok |-> FALSE, val |-> Null]

\* parse_json(jsonstr) with line=None: None for an empty string; json.loads,
\* and when it raises, json.loads of each line of the string, which for a
\* single line raises again and leaves None
parse_json(jsonstr) ==
    IF jsonstr = "" THEN Null
    ELSE IF json_loads(jsonstr).ok THEN json_loads(jsonstr).val
    ELSE Null

\* Python's truth value of a parsed JSON value (`if obj:`)
Truthy(x) ==
    CASE x.t = "null" -> FALSE
      [] x.t \in {"int", "float"} -> x.v # 0
      [] x.t = "bool" -> x.v
      [] x.t = "str" -> x.v # ""
      [] OTHER -> x.v # <<>>

\* one pass of `for _n in range(batch_size)` that reads a line
ReadLine ==
    /\ ~reader.done
    /\ reader.n < reader.batch_size
    /\ reader.pos <= Len(reader.src)
    /\ \E obj \in {parse_json(Strip(reader.src[reader.pos]))} :
          reader' = [reader EXCEPT !.pos = @ + 1, !.n = @ + 1,
                                   !.lines = IF Truthy(obj) THEN Append(@, obj) ELSE @]
    /\ UNCHANGED <<simple, progress, root_table, metadata, schema_changed, dbschema,
                   dbrows, dblinks, other, shadow, last, nops>>

\* the for loop is over (batch_size lines read, or readline gave ""):
\* `if not _lines: break`, else `yield _lines`
EndBatch ==
    /\ ~reader.done
    /\ (reader.n = reader.batch_size \/ reader.pos > Len(reader.src))
    /\ reader' = IF reader.lines = <<>>
                 THEN [reader EXCEPT !.done = TRUE]
                 ELSE [reader EXCEPT !.out = Append(@, reader.lines),
                                     !.lines = <<>>, !.n = 0]
    /\ UNCHANGED <<simple, progress, root_table, metadata, schema_changed, dbschema,
                   dbrows, dblinks, other, shadow, last, nops>>

Sources == UNION {[1..n -> LineTexts] : n \in 0..MaxLines}

InitRead ==
    /\ \E src \in Sources, batch_size \in 1..MaxBatch :
          reader = [NoReader EXCEPT !.src = src, !.batch_size = batch_size]
    /\ simple = FALSE
    /\ progress = TRUE
    /\ root_table = Lower("Main")
    /\ dbschema = EmptyCatalog
    /\ dbrows = {}
    /\ dblinks = {}
    /\ metadata = reflect(EmptyCatalog)
    /\ schema_changed = FALSE
    /\ other = [metadata |-> reflect(EmptyCatalog), schema_changed |-> FALSE]
    /\ shadow = [metadata |-> reflect(EmptyCatalog), schema_changed |-> FALSE,
                 dbschema |-> EmptyCatalog, dbrows |-> {}, dblinks |-> {},
                 outcome |-> "none", raised |-> FALSE, out |-> <<>>]
    /\ last = NoCall
    /\ nops = 0

NextRead == ReadLine \/ EndBatch

SpecRead == InitRead /\ [][NextRead]_vars

-----------------------------------------------------------------------------
(* Properties.                                                             *)

ScalarKinds == {"str", "int", "float", "bool"}

\* the last call wrote the schema to the database and the write succeeded
WriteDone == last.wrote /\ ~last.ddlraised /\ ~last.ddlcommitfailed

\* an object with at least one field, all of them scalars
IsFlat(d) == IsDict(d) /\ d.v # <<>> /\ \A i \in 1..Len(d.v) : d.v[i][2].t \in ScalarKinds

\* null, an empty object, an empty list or an empty string
IsEmptyEntry(x) == IsEmptyVal(x) \/ (x.t = "str" /\ x.v = "")

\* an object whose every value is null, empty, or a list of null/empty entries
IsAllEmpty(d) ==
    /\ IsDict(d)
    /\ \A i \in 1..Len(d.v) :
          LET x == d.v[i][2]
          IN  IsEmptyVal(x) \/ (IsList(x) /\ \A j \in 1..Len(x.v) : IsEmptyEntry(x.v[j]))

\* C1: a second create_schema(d) right after create_schema(d), both with
\* writing enabled, creates no table and no column, leaves schema_changed false
\* and leaves the catalog and the physical schema as the first call left them.
C1_Idempotent ==
    [][ ( /\ last.op = "create_schema" /\ ~last.no_write
          /\ last'.op = "create_schema" /\ ~last'.no_write
          /\ last'.doc = last.doc )
        => ( /\ last'.created = {}
             /\ last'.addcols = {}
             /\ schema_changed' = FALSE
             /\ metadata' = metadata
             /\ dbschema' = dbschema ) ]_vars

\* a second create_schema of a document that needed tables and columns
C1_Witness ==
    /\ last.op = "create_schema" /\ last.repeat /\ ~last.no_write
    /\ last.reused # {} /\ last.scalars # {}
    /\ Cardinality(dbschema.tables) >= 3

\* C2: in non-simple mode, importing the same flat object twice into the
\* root table of a fresh database leaves exactly one row in it: the second
\* import stages nothing and reuses the row that equals it on every field.
C2_Dedup ==
    ( /\ nops = 2 /\ last.op = "import_json" /\ last.repeat
      /\ last.outcome = "committed" /\ ~simple /\ IsFlat(Docs[last.doc]) )
    => ( /\ Cardinality(RowsOf(dbrows, root_table)) = 1
         /\ last.staged = {}
         /\ last.reusedrows = {last.ref}
         /\ \E r \in Matches(dbrows, root_table, AsMap(Docs[last.doc].v)) :
               r.id = last.ref.id )

C2_Witness ==
    /\ nops = 2 /\ last.op = "import_json" /\ last.repeat
    /\ last.outcome = "committed" /\ ~simple /\ IsFlat(Docs[last.doc])
    /\ Cardinality(RowsOf(dbrows, root_table)) = 1

\* C3: create_schema on a document whose every value is null, empty or a
\* list of null/empty entries creates no column and no child or bridge table;
\* on a fresh database the root table with its _id column is all there is.
C3_EmptyPruning ==
    ( last.op = "create_schema" /\ IsAllEmpty(Docs[last.doc]) )
    => ( /\ last.addcols = {}
         /\ \A c \in last.created : c.kind = "root"
         /\ (nops = 1 =>
               /\ metadata = [tables |-> {root_table}, cols |-> {PkCol(root_table)}]
               /\ (WriteDone => dbschema = metadata)) )

C3_Witness ==
    /\ last.op = "create_schema" /\ IsAllEmpty(Docs[last.doc]) /\ nops = 1
    /\ ~last.no_write
    /\ dbschema = [tables |-> {root_table}, cols |-> {PkCol(root_table)}]

IsBridgeName(t) == Len(t) >= 7 /\ SubSeq(t, 1, 7) = "bridge_"

\* C4: in non-simple mode, importing {"tags": ["x", "y"]} into root table
\* main creates table tags with a scalar column named value, table
\* bridge_main_tags with exactly the foreign keys main_id and tags_id, and two
\* rows in tags.
C4_BridgeTables ==
    ( /\ nops = 1 /\ last.op = "import_json" /\ Docs[last.doc] = DocTags
      /\ ~simple /\ root_table = "main" /\ last.outcome = "committed" )
    => ( /\ ScalarCol("tags", "value", "String") \in dbschema.cols
         /\ ColsOf(dbschema, "bridge_main_tags")
              = {FkCol("bridge_main_tags", "main"), FkCol("bridge_main_tags", "tags")}
         /\ Cardinality(RowsOf(dbrows, "tags")) = 2 )

\* C5: in simple mode no table named bridge_... ever exists, and every child
\* table created for a list-valued key k under table p has the foreign-key
\* column <p>_id referencing p.
C5_SimpleNoBridge ==
    simple =>
       ( /\ \A t \in metadata.tables \cup dbschema.tables : ~IsBridgeName(t)
         /\ \A c \in last.created :
               c.islist =>
                  /\ (last.op = "create_schema" => FkCol(c.tbl, c.parent) \in metadata.cols)
                  /\ (WriteDone => FkCol(c.tbl, c.parent) \in dbschema.cols) )

C5_Witness ==
    /\ simple /\ nops = 2
    /\ \E c \in last.created : c.islist /\ FkCol(c.tbl, c.parent) \in dbschema.cols

FkCols(md, tbl) == {c \in ColsOf(md, tbl) : c.fk # ""}

\* C6: when create_schema meets a nested key k whose table already exists
\* (from an earlier branch, an earlier call, or because k is the root table),
\* no table is created a second time, table k gains no foreign-key column and
\* no bridge table is created for the new parent; the fields met under k are
\* columns of the one table k.
C6_TableReuse ==
    [][ last'.op = "create_schema" =>
          /\ \A c1, c2 \in last'.created : c1.tbl = c2.tbl => c1 = c2
          /\ \A s \in last'.scalars : s.col \in ColNames(metadata', s.tbl)
          /\ \A e \in last'.reused :
               /\ e.tbl \in metadata'.tables
               /\ FkCols(metadata', e.tbl) \subseteq
                    FkCols(metadata, e.tbl) \cup
                    {FkCol(c.tbl, c.parent) :
                        c \in {x \in last'.created :
                                 x.tbl = e.tbl /\ x.kind \notin {"root", "many_to_many"}}}
               /\ BridgeName(e.parent, e.tbl) \in metadata'.tables =>
                    \/ BridgeName(e.parent, e.tbl) \in metadata.tables
                    \/ \E c \in last'.created :
                          c.tbl = e.tbl /\ c.parent = e.parent /\ c.kind = "many_to_many"
      ]_vars

\* a table reused under a parent it holds no foreign key to, and the root
\* table met again as a nested key
C6_Witness ==
    /\ last.op = "create_schema"
    /\ \E e \in last.reused : e.tbl = root_table
    /\ \E e \in last.reused :
          /\ e.tbl # root_table /\ e.parent # e.tbl
          /\ FkCol(e.tbl, e.parent) \notin metadata.cols
          /\ \E s \in last.scalars : s.tbl = e.tbl

\* a document whose fields are scalars, non-empty objects and non-empty lists
\* of scalars and of such objects
RECURSIVE IsRoundTripDoc(_)
IsRoundTripDoc(d) ==
    /\ IsDict(d) /\ d.v # <<>>
    /\ \A i \in 1..Len(d.v) :
          LET x == d.v[i][2]
          IN  \/ x.t \in ScalarKinds
              \/ IsDict(x) /\ IsRoundTripDoc(x)
              \/ /\ IsList(x) /\ x.v # <<>>
                 /\ \A j \in 1..Len(x.v) :
                       x.v[j].t \in ScalarKinds \/ IsRoundTripDoc(x.v[j])

\* the input as it is compared with what is read back: keys are unordered, a
\* nested object counts as the list of that one object
RECURSIVE Canon(_)
Canon(d) ==
    CASE IsDict(d) ->
           [t |-> "obj",
            v |-> [k \in {p[1] : p \in Range(d.v)} |->
                     LET x == (CHOOSE p \in Range(d.v) : p[1] = k)[2]
                     IN  IF IsDict(x) THEN JList(<<Canon(x)>>) ELSE Canon(x)]]
      [] IsList(d) -> JList([i \in 1..Len(d.v) |-> Canon(d.v[i])])
      [] OTHER -> d

ReadBack(tbl, id) == dbobj2obj(dbschema, dbrows, dblinks, tbl, id, "")

\* C7: import_json of an object of scalars, nested objects and lists into a
\* fresh database, then reading the root's row back along its relationships,
\* gives a document structurally equal to the input.
C7_RoundTrip ==
    ( /\ nops = 1 /\ last.op = "import_json" /\ last.outcome = "committed"
      /\ IsRoundTripDoc(Docs[last.doc]) )
    => ( /\ last.ref # None
         /\ ReadBack(last.ref.tbl, last.ref.id) = Canon(Docs[last.doc]) )

Min(a, b) == IF a <= b THEN a ELSE b

\* C8: after import_multi_json(array) on a fresh database the i-th row of the
\* root table, in _id order, reads back as the i-th element of the array.
C8_BatchOrder ==
    ( /\ nops = 1 /\ last.op = "import_multi_json" /\ last.outcome = "committed"
      /\ \A j \in 1..Len(Docs[last.doc].v) : IsRoundTripDoc(Docs[last.doc].v[j]) )
    => LET ids == SortedIds({r.id : r \in RowsOf(dbrows, root_table)})
       IN  \A i \in 1..Min(Len(ids), Len(Docs[last.doc].v)) :
              ReadBack(root_table, ids[i]) = Canon(Docs[last.doc].v[i])

InsertOps == {"insert_data_to_schema", "import_json", "import_multi_json"}

IsRow(rows, ref) == \E r \in rows : r.tbl = ref.tbl /\ r.id = ref.id

\* C9: when insert_data_to_schema ends, either it committed and every row it
\* staged for the document is in the database, or it failed (in the
\* conversion or in the commit) and none of them is.
C9_Atomic ==
    last.op \in InsertOps =>
       /\ last.outcome \in {"committed", "rolled_back", "raised"}
       /\ last.outcome = "committed" => \A s \in last.staged : IsRow(dbrows, s)
       /\ last.outcome # "committed" => \A s \in last.staged : ~IsRow(dbrows, s)

\* a failed insertion that had staged rows, into a database that holds rows
C9_Witness ==
    /\ last.op \in InsertOps /\ last.outcome # "committed"
    /\ last.staged # {} /\ dbrows # {}

\* C10: a commit failure in insert_data_to_schema reaches the caller: the
\* call raises.
C10_CommitFailureReported ==
    (last.op \in InsertOps /\ last.outcome = "rolled_back") => last.raised

ImportOps == {"import_json", "import_multi_json"}

\* C11: in import_json / import_multi_json the mapper runs after the whole of
\* create_schema: whenever the walk changed the catalog write_schema was
\* called before any row was built, the mapper's catalog is the one reflected
\* from the database after that DDL, every table and column a successful
\* write created for the document is in it, and every row built belongs to a
\* table of the database.
C11_PhaseOrder ==
    (last.op \in ImportOps /\ last.mapped) =>
       /\ ((last.created # {} \/ last.addcols # {}) => last.wrote)
       /\ metadata = reflect(dbschema)
       /\ (WriteDone => /\ \A c \in last.created : c.tbl \in metadata.tables
                        /\ last.addcols \subseteq metadata.cols)
       /\ \A r \in last.staged : r.tbl \in dbschema.tables

C11_Witness ==
    /\ last.op \in ImportOps /\ last.mapped /\ WriteDone
    /\ Cardinality(last.created) >= 2 /\ last.addcols # {}
    /\ Cardinality(last.staged) >= 2 /\ last.outcome = "committed"
    /\ \A c \in last.created : c.tbl \in dbschema.tables

\* the catalog md2 has every table and column of md
Within(md, md2) == md.tables \subseteq md2.tables /\ md.cols \subseteq md2.cols

\* no column of md is there with two types
OneType(md) ==
    \A c1, c2 \in md.cols : (c1.tbl = c2.tbl /\ c1.col = c2.col) => c1.typ = c2.typ

\* C12: a create_schema call removes no table and no (table, column, type)
\* from the catalog, no call removes one from the database, and no column
\* is ever there with a second type: the type first seen stays.
C12_Additive ==
    [][ /\ (last'.op = "create_schema" => Within(metadata, metadata'))
        /\ Within(dbschema, dbschema')
        /\ OneType(metadata') /\ OneType(dbschema') ]_vars

C12_Witness ==
    /\ last.op = "create_schema" /\ Docs[last.doc] = DocId /\ ~last.no_write
    /\ [tbl |-> root_table, col |-> "x"] \in last.scalars
    /\ ScalarCol(root_table, "x", "Integer") \in dbschema.cols
    /\ ScalarCol(root_table, "x", "String") \notin metadata.cols

\* C13: with two importers on one database, no call of either removes a
\* table or a column from the database.
C13_NoDeletion ==
    [][ /\ dbschema.tables \subseteq dbschema'.tables
        /\ \A c \in dbschema.cols : c.col \in ColNames(dbschema', c.tbl) ]_vars

\* the primary-key columns of table tbl
PkCols(md, tbl) == {c \in ColsOf(md, tbl) : c.pk}

\* every table of md that is no bridge table has the one primary key _id;
\* a bridge table is bridge_<p>_<c> of two tables p and c of md, and its
\* columns are the two foreign keys <p>_id and <c>_id
KeysAsDesigned(md) ==
    \A t \in md.tables :
       IF IsBridgeName(t)
       THEN \E p, c \in md.tables :
               /\ t = BridgeName(p, c)
               /\ ColsOf(md, t) = {FkCol(t, p), FkCol(t, c)}
               /\ Cardinality(ColsOf(md, t)) = 2
       ELSE PkCols(md, t) = {PkCol(t)}

\* C14: in the catalog and in the database every table that is no bridge
\* table has exactly one primary-key column, _id, and every bridge table has
\* exactly its two foreign-key columns and no _id.
C14_PrimaryKeys ==
    KeysAsDesigned(metadata) /\ KeysAsDesigned(dbschema)

C14_Witness ==
    /\ nops = 2 /\ last.op = "create_schema" /\ WriteDone
    /\ \E t \in dbschema.tables : IsBridgeName(t)
    /\ Cardinality(dbschema.tables) >= 4

\* the object d has the key k
HasKey(d, k) == IsDict(d) /\ \E i \in 1..Len(d.v) : d.v[i][1] = k

\* C15: importing into a fresh database a document with the key _id gives
\* the root table a scalar column id, stores the document's value there, and
\* gives the row the _id the database assigns (1 in an empty table), not the
\* document's.
C15_IdRenamed ==
    ( /\ nops = 1 /\ last.op = "import_json" /\ last.outcome = "committed"
      /\ HasKey(Docs[last.doc], "_id") )
    => ( /\ ScalarCol(root_table, "id", "Integer") \in dbschema.cols
         /\ \E r \in RowsOf(dbrows, root_table) :
               /\ r.id = last.ref.id
               /\ "id" \in DOMAIN r.vals
               /\ r.vals["id"] = AsMap(Docs[last.doc].v)["_id"]
         /\ last.ref.id = NextId({}, root_table) )

\* every table name and every column name of md is lower-case
LowerCased(md) ==
    /\ \A t \in md.tables : Lower(t) = t
    /\ \A c \in md.cols : Lower(c.col) = c.col

\* C16: the importer's root_table and every table name and column name of
\* the catalog and of the database are lower-case.
C16_LowerCase ==
    /\ Lower(root_table) = root_table
    /\ LowerCased(metadata)
    /\ LowerCased(dbschema)

\* C17: right after construction, and whenever a create_schema call with
\* writing enabled has returned, the catalog and the database hold the same
\* tables and columns.
C17_CatalogMatchesDatabase ==
    ( \/ last.op = "init"
      \/ (last.op = "create_schema" /\ ~last.no_write /\ ~last.raised) )
    => metadata = dbschema

\* C18: a create_schema call with no_write=True changes nothing in the
\* database (schema, rows, links); the tables and columns it inferred are
\* added to the catalog only.
C18_NoWriteFrame ==
    [][ (last'.op = "create_schema" /\ last'.no_write)
        => ( /\ dbschema' = dbschema /\ dbrows' = dbrows /\ dblinks' = dblinks
             /\ ~last'.wrote
             /\ Within(metadata, metadata')
             /\ \A c \in last'.created : c.tbl \in metadata'.tables
             /\ last'.addcols \subseteq metadata'.cols ) ]_vars

C18_Witness ==
    /\ last.op = "create_schema" /\ last.no_write
    /\ Cardinality(last.created) >= 2 /\ last.addcols # {}
    /\ \A c \in last.created : c.tbl \in metadata.tables /\ c.tbl \notin dbschema.tables
    /\ dbschema = EmptyCatalog

\* C19: a run with progress and a run without it, given the same calls,
\* have the same catalog, the same database schema, rows and links, and the
\* same outcome of every call.
C19_ProgressNoOp ==
    /\ shadow.metadata = metadata
    /\ shadow.schema_changed = schema_changed
    /\ shadow.dbschema = dbschema
    /\ shadow.dbrows = dbrows
    /\ shadow.dblinks = dblinks
    /\ shadow.outcome = last.outcome
    /\ shadow.raised = last.raised

C19_Witness ==
    /\ last.op = "insert_data_to_schema" /\ last.outcome = "committed"
    /\ Cardinality(last.staged) >= 2
    /\ shadow.out # last.out
    /\ "." \in {last.out[n] : n \in DOMAIN last.out}
                \cup {shadow.out[n] : n \in DOMAIN shadow.out}
    /\ dbrows # {}

\* C20: when a DDL operation of write_schema or the commit of the DDL
\* fails, the call of create_schema / import_json / import_multi_json
\* raises and the insertion pass of that document does not run.
C20_DdlFailureFatal ==
    ( /\ last.op \in {"create_schema"} \cup ImportOps
      /\ (last.ddlraised \/ last.ddlcommitfailed) )
    => (last.raised /\ ~last.mapped /\ last.staged = {})

\* C21: in non-simple mode a dedup query that raises is treated as "no row
\* found": the call does not raise, and a new row is built and staged for
\* the object.
C21_QueryFailureSwallowed ==
    (last.op \in InsertOps /\ last.queryfailed)
    => (~last.raised /\ last.outcome # "raised" /\ last.staged # {})

\* the tables and columns the last call's walk added to the catalog that are
\* not in the database
NotWritten ==
    {c.tbl : c \in {x \in last.created : x.tbl \notin dbschema.tables}}
    \cup {c.col : c \in {x \in last.addcols : x \notin dbschema.cols}}

\* C22: create_schema applies every table and column to the database as the
\* walk meets it: when a DDL operation fails, all that the walk had met
\* before, the failing one apart, is in the database.
C22_Incremental ==
    (last.op = "create_schema" /\ ~last.no_write /\ last.ddlraised)
    => Cardinality(NotWritten) <= 1

\* C23: when create_schema meets, under a table p, a key k that names a
\* scalar column of p with a non-empty object or list as its value, the call
\* resolves table k, walks into it, does not raise, and the scalar column k
\* of p stays in the catalog and in the database with its type.
C23_ScalarRelationalConflict ==
    [][ last'.op = "create_schema" =>
          \A e \in {[tbl |-> c.tbl, parent |-> c.parent] : c \in last'.created}
                   \cup last'.reused :
             \A c \in ColsOf(metadata, e.parent) :
                (c.col = e.tbl /\ c.fk = "" /\ ~c.pk) =>
                   /\ ~last'.ddlraised => ~last'.raised
                   /\ e.tbl \in metadata'.tables
                   /\ \E s \in last'.scalars : s.tbl = e.tbl
                   /\ \A s \in last'.scalars : s.col \in ColNames(metadata', s.tbl)
                   /\ c \in metadata'.cols
                   /\ c \in dbschema.cols => c \in dbschema'.cols
      ]_vars

C23_Witness ==
    /\ last.op = "create_schema" /\ Docs[last.doc] = DocConflict /\ WriteDone
    /\ \A k \in {"x", "y"} :
          /\ \E c \in last.created : c.tbl = k /\ c.parent = root_table
          /\ \E c \in ColsOf(dbschema, root_table) : c.col = k /\ c.fk = ""
          /\ PkCol(k) \in dbschema.cols

\* the column type the kind of a value stands for, "" for none
ExpectedType(kind) ==
    CASE kind = "str" -> "String"
      [] kind = "int" -> "Integer"
      [] kind = "float" -> "Float"
      [] kind = "bool" -> "Boolean"
      [] kind = "date" -> "Date"
      [] OTHER -> ""

\* C24: create_schema on a fresh catalog gives the root table, for each key
\* of the document other than _id, a column of the type of the value's exact
\* kind (String, Integer, Float, Boolean, Date), and no column for null or
\* for a value of any other kind.
C24_TypeMapping ==
    (last.op = "create_schema" /\ nops = 1 /\ IsDict(Docs[last.doc]))
    => \A i \in 1..Len(Docs[last.doc].v) :
          LET k == Docs[last.doc].v[i][1]
              val == Docs[last.doc].v[i][2]
          IN  (k # "_id" /\ val.t \notin {"obj", "list"}) =>
                 IF ExpectedType(val.t) # ""
                 THEN /\ ScalarCol(root_table, k, ExpectedType(val.t)) \in last.addcols
                      /\ {c \in ColsOf(metadata, root_table) : c.col = k}
                           = {ScalarCol(root_table, k, ExpectedType(val.t))}
                      /\ (WriteDone =>
                            ScalarCol(root_table, k, ExpectedType(val.t)) \in dbschema.cols)
                 ELSE /\ k \notin ColNames(metadata, root_table)
                      /\ k \notin ColNames(dbschema, root_table)

C24_Witness ==
    /\ last.op = "create_schema" /\ nops = 1 /\ Docs[last.doc] = DocTypes /\ WriteDone
    /\ ColsOf(dbschema, root_table) =
          {PkCol(root_table), ScalarCol(root_table, "s", "String"),
           ScalarCol(root_table, "i", "Integer"), ScalarCol(root_table, "f", "Float"),
           ScalarCol(root_table, "b", "Boolean"), ScalarCol(root_table, "d", "Date")}

\* the object d has no scalar field: every value is null, an object or a list
NoScalarField(d) ==
    IsDict(d) /\ \A i \in 1..Len(d.v) : d.v[i][2].t \in {"null", "obj", "list"}

\* C25: for a document without scalar fields make_relational_obj returns
\* null: the call creates, reuses and stages no row for the document itself.
C25_NoScalarNoRow ==
    ( /\ last.op \in {"insert_data_to_schema", "import_json"}
      /\ last.outcome = "committed"
      /\ NoScalarField(Docs[last.doc]) )
    => ( /\ last.ref = None
         /\ last.ref \notin last.staged \cup last.reusedrows )

RECURSIVE Flatten(_)
Flatten(batches) ==
    IF batches = <<>> THEN <<>> ELSE Head(batches) \o Flatten(Tail(batches))

\* the values of the lines of src that parse to a value Python counts as
\* true, in source order
RECURSIVE Parsed(_)
Parsed(src) ==
    IF src = <<>> THEN <<>>
    ELSE (IF Truthy(parse_json(Strip(Head(src))))
          THEN <<parse_json(Strip(Head(src)))>> ELSE <<>>) \o Parsed(Tail(src))

\* C26: when read_json in line mode stops, the source is exhausted and the
\* batches yielded, each of at most batch_size objects, hold the parsed
\* lines once each in source order.
C26_LineModeComplete ==
    /\ \A i \in 1..Len(reader.out) :
          reader.out[i] # <<>> /\ Len(reader.out[i]) <= reader.batch_size
    /\ reader.done =>
          /\ reader.pos > Len(reader.src)
          /\ Flatten(reader.out) = Parsed(reader.src)

\* C27: every row an import commits into a table other than the root table
\* is the child of a row: a link (the child's foreign key or a bridge row)
\* joins it to a parent, also when its table was created under another
\* parent table.
C27_ChildLinked ==
    ( /\ last.op \in {"insert_data_to_schema", "import_json"}
      /\ last.outcome = "committed" /\ IsDict(Docs[last.doc]) )
    => \A s \in last.staged :
          s.tbl # root_table =>
             \E l \in dblinks : l.ctbl = s.tbl /\ l.cid = s.id

\* C28: an import that commits removes no parent-child link of the
\* database: a reused row keeps the children earlier imports attached to it.
C28_ReuseKeepsChildren ==
    [][ (last'.op \in InsertOps /\ last'.outcome = "committed")
        => dblinks \subseteq dblinks' ]_vars

\* the keys of the scalar fields of the object d, _id apart
ScalarKeys(d) ==
    {d.v[i][1] : i \in {j \in 1..Len(d.v) :
                          d.v[j][2].t \in {"str", "int", "float", "bool", "date"}}}
    \ {"_id"}

\* C29: in non-simple mode the row a document is merged into holds values in
\* exactly the columns of the document's scalar fields: not in columns the
\* document does not mention, and a document without scalar fields is
\* merged into no row.
C29_MergeOnlyEqual ==
    ( /\ last.op \in {"insert_data_to_schema", "import_json"}
      /\ last.outcome = "committed" /\ ~simple /\ IsDict(Docs[last.doc])
      /\ last.ref \in last.reusedrows )
    => /\ ScalarKeys(Docs[last.doc]) # {}
       /\ \A r \in RowsOf(dbrows, last.ref.tbl) :
             r.id = last.ref.id => DOMAIN r.vals = ScalarKeys(Docs[last.doc])

\* a list of objects with scalar fields only, no two of them equal
IsDistinctBatch(d) ==
    /\ IsList(d) /\ d.v # <<>>
    /\ \A i \in 1..Len(d.v) : IsFlat(d.v[i])
    /\ \A i, j \in 1..Len(d.v) : i # j => d.v[i] # d.v[j]

\* C30: import_multi_json of a list of N different flat objects into an
\* empty database leaves exactly N rows in the root table, in simple and in
\* non-simple mode.
C30_BatchWrapperNoRow ==
    ( /\ nops = 1 /\ last.op = "import_multi_json" /\ last.outcome = "committed"
      /\ IsDistinctBatch(Docs[last.doc]) )
    => Cardinality(RowsOf(dbrows, root_table)) = Len(Docs[last.doc].v)

====
